---------------------------- MODULE Spec2Model ----------------------------
(***************************************************************************)
(* Model of tuning/data/data_config.py (the data-config validator) and of  *)
(* the data handlers exercised by tests/data/test_data_handlers.py.        *)
(*                                                                         *)
(* Python values are tagged records.  A str is the sequence of its code    *)
(* points, so that the code's character-level operations (os.path.isabs,   *)
(* os.path.abspath, b64decode, bytes.decode) are computed, not assumed.    *)
(* A float is kept in tenths (Float(5) is 0.5).  A dict is the ordered     *)
(* sequence of its <<key, value>> items, as Python dicts keep insertion    *)
(* order.                                                                  *)
(***************************************************************************)
EXTENDS Integers, Sequences, FiniteSets, TLC

VARIABLES
  call,     \* the operation that was invoked ("idle" before any call)
  arg,      \* the argument it was invoked with
  ret,      \* its outcome: a returned value or a raised exception
  log,      \* what logger.warning emitted during the call
  pending,  \* dataset engine: the records not yet handed to the handler
  out       \* dataset engine: the records produced so far

vars == <<call, arg, ret, log, pending, out>>

(***************************************************************************)
(* Bounds of the model.                                                    *)
(***************************************************************************)
MaxPaths == 2       \* longest data_paths list
MaxHandlers == 2    \* longest data_handlers list
MaxDatasets == 2    \* longest datasets list
MaxB64Len == 4      \* longest chat_template_base64 string
MaxRecords == 3     \* longest dataset handed to the dataset engine
MaxColLen == 3      \* longest column value of a record

(***************************************************************************)
(* Python values.                                                          *)
(***************************************************************************)
None == [t |-> "none"]
Str(s) == [t |-> "str", v |-> s]
PyInt(n) == [t |-> "int", v |-> n]
PyBool(b) == [t |-> "bool", v |-> b]
Float(tenths) == [t |-> "float", v |-> tenths, nan |-> FALSE]
NaN == [t |-> "float", v |-> 0, nan |-> TRUE]
List(s) == [t |-> "list", v |-> s]
Dict(items) == [t |-> "dict", v |-> items]

\* The string literals of the source, as code points.
Lit ==
  [
    name |-> <<110, 97, 109, 101>>,
    arguments |-> <<97, 114, 103, 117, 109, 101, 110, 116, 115>>,
    data_paths |-> <<100, 97, 116, 97, 95, 112, 97, 116, 104, 115>>,
    builder |-> <<98, 117, 105, 108, 100, 101, 114>>,
    sampling |-> <<115, 97, 109, 112, 108, 105, 110, 103>>,
    data_handlers |-> <<100, 97, 116, 97, 95, 104, 97, 110, 100, 108, 101, 114, 115>>,
    split |-> <<115, 112, 108, 105, 116>>,
    type |-> <<116, 121, 112, 101>>,
    sampling_stopping_strategy |-> <<115, 97, 109, 112, 108, 105, 110, 103, 95, 115, 116, 111, 112, 112, 105, 110, 103, 95, 115, 116, 114, 97, 116, 101, 103, 121>>,
    seed |-> <<115, 101, 101, 100>>,
    streaming |-> <<115, 116, 114, 101, 97, 109, 105, 110, 103>>,
    chat_template |-> <<99, 104, 97, 116, 95, 116, 101, 109, 112, 108, 97, 116, 101>>,
    chat_template_base64 |-> <<99, 104, 97, 116, 95, 116, 101, 109, 112, 108, 97, 116, 101, 95, 98, 97, 115, 101, 54, 52>>,
    datasets |-> <<100, 97, 116, 97, 115, 101, 116, 115>>,
    dataprocessor |-> <<100, 97, 116, 97, 112, 114, 111, 99, 101, 115, 115, 111, 114>>,
    default |-> <<100, 101, 102, 97, 117, 108, 116>>,
    first_exhausted |-> <<102, 105, 114, 115, 116, 95, 101, 120, 104, 97, 117, 115, 116, 101, 100>>,
    all_exhausted |-> <<97, 108, 108, 95, 101, 120, 104, 97, 117, 115, 116, 101, 100>>,
    input |-> <<105, 110, 112, 117, 116>>,
    input_ids |-> <<105, 110, 112, 117, 116, 95, 105, 100, 115>>,
    labels |-> <<108, 97, 98, 101, 108, 115>>,
    not_existing |-> <<110, 111, 116, 95, 101, 120, 105, 115, 116, 105, 110, 103>>,
    column_name |-> <<99, 111, 108, 117, 109, 110, 95, 110, 97, 109, 101>>,
    max_allowed_length |-> <<109, 97, 120, 95, 97, 108, 108, 111, 119, 101, 100, 95, 108, 101, 110, 103, 116, 104>>,
    existing_column_name |-> <<101, 120, 105, 115, 116, 105, 110, 103, 95, 99, 111, 108, 117, 109, 110, 95, 110, 97, 109, 101>>,
    new_column_name |-> <<110, 101, 119, 95, 99, 111, 108, 117, 109, 110, 95, 110, 97, 109, 101>>
  ]

S(word) == Str(Lit[word])

\* isinstance(x, T).  bool is a subclass of int in Python.
IsDict(x) == x.t = "dict"
IsList(x) == x.t = "list"
IsStr(x) == x.t = "str"
IsBoolInstance(x) == x.t = "bool"
IsIntInstance(x) == x.t \in {"int", "bool"}
IsFloatOrInt(x) == x.t \in {"float", "int", "bool"}

\* key in d, d[key], d.get(key, default) for a dict d.
HasKey(d, key) == \E i \in 1..Len(d.v) : d.v[i][1] = key
GetItem(d, key) == d.v[CHOOSE i \in 1..Len(d.v) : d.v[i][1] = key][2]
GetOr(d, key, default) == IF HasKey(d, key) THEN GetItem(d, key) ELSE default

\* The outcome of a call: the value returned, or the exception raised, with
\* the warnings logged on the way.
Return(value, warnings) == [kind |-> "ok", val |-> value, log |-> warnings]
Raise(exception, message, warnings) ==
  [kind |-> "raise", exc |-> exception, msg |-> message, log |-> warnings]

\* The numeric value, in tenths, of a float, int or bool: what the chained
\* comparison 0.0 <= x <= 1.0 and float(x) work on.
Tenths(x) ==
  CASE x.t = "float" -> x.v
    [] x.t = "int" -> 10 * x.v
    [] x.t = "bool" -> IF x.v THEN 10 ELSE 0

\* 0.0 <= x <= 1.0; every comparison with nan is False.
InUnitInterval(x) ==
  IF x.t = "float" /\ x.nan THEN FALSE ELSE 0 <= Tenths(x) /\ Tenths(x) <= 10

\* float(x) for a float, int or bool x.
ToFloat(x) == IF x.t = "float" THEN x ELSE Float(Tenths(x))

(***************************************************************************)
(* _validate_data_handler_config                                           *)
(***************************************************************************)
\* DataHandlerConfig(**kwargs): the dataclass constructor takes exactly the
\* keywords name and arguments.
DataHandlerConfig(kwargs) ==
  IF \E i \in 1..Len(kwargs.v) : ~IsStr(kwargs.v[i][1])
  THEN Raise("TypeError", "keywords must be strings", <<>>)
  ELSE IF \E i \in 1..Len(kwargs.v) : kwargs.v[i][1] \notin {S("name"), S("arguments")}
  THEN Raise("TypeError", "got an unexpected keyword argument", <<>>)
  ELSE Return([t |-> "DataHandlerConfig",
               name |-> GetItem(kwargs, S("name")),
               arguments |-> GetItem(kwargs, S("arguments"))], <<>>)

_validate_data_handler_config(data_handler) ==
  LET kwargs == data_handler IN
  IF ~IsDict(kwargs)
  THEN Raise("AssertionError", "data_handlers in data_config needs to be a dict", <<>>)
  ELSE IF ~(HasKey(kwargs, S("name")) /\ IsStr(GetItem(kwargs, S("name"))))
  THEN Raise("AssertionError", "data_handlers need to have a name with type str", <<>>)
  ELSE IF ~HasKey(kwargs, S("arguments"))
  THEN Raise("AssertionError", "data handlers need to have arguments", <<>>)
  ELSE IF ~IsDict(GetItem(kwargs, S("arguments")))
  THEN Raise("AssertionError", "data handler arguments should be of the type dict", <<>>)
  ELSE DataHandlerConfig(kwargs)

(***************************************************************************)
(* _validate_dataset_config                                                *)
(***************************************************************************)
\* The process's working directory and the files that exist: the environment
\* os.path.abspath and os.path.exists read.  Cwd is "/w"; "/w/a" exists.
Cwd == <<47, 119>>
Filesystem == {<<47>>, Cwd, Cwd \o <<47, 97>>, <<47, 100>>}

\* os.path.isabs(p): p starts with "/".
IsAbs(p) == Len(p) > 0 /\ p[1] = 47
\* os.path.abspath(p): normpath(join(getcwd(), p)).  No path of the model has
\* an empty, "." or ".." segment, so normpath only drops the trailing "/" that
\* joining the empty path leaves.
Abspath(p) ==
  IF IsAbs(p) THEN p ELSE IF p = <<>> THEN Cwd ELSE Cwd \o <<47>> \o p
Exists(p) == p \in Filesystem

\* The loop over data_paths (lines 87-93), from element i on.
RECURSIVE PathsLoop(_, _, _, _)
PathsLoop(data_paths, i, acc, warnings) ==
  IF i > Len(data_paths) THEN Return(List(acc), warnings)
  ELSE LET p == data_paths[i] IN
    IF ~IsStr(p)
    THEN Raise("AssertionError", "path should be of the type string", warnings)
    ELSE IF ~IsAbs(p.v) /\ Exists(Abspath(p.v))
    THEN PathsLoop(data_paths, i + 1, Append(acc, Str(Abspath(p.v))),
                   Append(warnings, [event |-> "path_not_absolute",
                                     p |-> p.v, to |-> Abspath(p.v)]))
    ELSE PathsLoop(data_paths, i + 1, Append(acc, p), warnings)

\* What `for handler in x` iterates over: the elements of a list, the keys of
\* a dict, the characters of a str; any other value of the model is not
\* iterable.
IsIterable(x) == x.t \in {"list", "dict", "str"}
Iterate(x) ==
  CASE x.t = "list" -> x.v
    [] x.t = "dict" -> [i \in 1..Len(x.v) |-> x.v[i][1]]
    [] x.t = "str" -> [i \in 1..Len(x.v) |-> Str(<<x.v[i]>>)]

\* The loop over data_handlers (lines 110-111), from element i on.
RECURSIVE HandlersLoop(_, _, _)
HandlersLoop(handlers, i, acc) ==
  IF i > Len(handlers) THEN Return(List(acc), <<>>)
  ELSE LET h == _validate_data_handler_config(handlers[i]) IN
    IF h.kind = "raise" THEN h
    ELSE HandlersLoop(handlers, i + 1, Append(acc, h.val))

\* The loop over split.items() (lines 117-121): the first item that violates
\* an assertion, or 0.
FirstBadSplitItem(split) ==
  LET bad(i) == \/ ~IsStr(split.v[i][1])
                \/ ~(IsFloatOrInt(split.v[i][2]) /\ InUnitInterval(split.v[i][2]))
  IN IF \E i \in 1..Len(split.v) : bad(i)
     THEN CHOOSE i \in 1..Len(split.v) : bad(i) /\ \A j \in 1..(i - 1) : ~bad(j)
     ELSE 0

\* Lines 112-123.
DatasetSplit(kwargs, c, warnings) ==
  IF HasKey(kwargs, S("split")) /\ GetItem(kwargs, S("split")) # None
  THEN LET split == GetItem(kwargs, S("split")) IN
    IF ~IsDict(split)
    THEN Raise("AssertionError", "split must be a dictionary of split_name: ratio", warnings)
    ELSE IF FirstBadSplitItem(split) # 0
    THEN IF ~IsStr(split.v[FirstBadSplitItem(split)][1])
         THEN Raise("AssertionError", "split key must be a string", warnings)
         ELSE Raise("AssertionError", "split ratio must be a float in [0.0, 1.0]", warnings)
    ELSE Return([c EXCEPT !.split =
                   Dict([i \in 1..Len(split.v) |->
                           <<split.v[i][1], ToFloat(split.v[i][2])>>])], warnings)
  ELSE Return(c, warnings)

\* Lines 108-111.
DatasetHandlers(kwargs, c, warnings) ==
  IF HasKey(kwargs, S("data_handlers"))
  THEN LET handlers == GetItem(kwargs, S("data_handlers")) IN
    IF ~IsIterable(handlers)
    THEN Raise("TypeError", "object is not iterable", warnings)
    ELSE LET hs == HandlersLoop(Iterate(handlers), 1, <<>>) IN
      IF hs.kind = "raise" THEN Raise(hs.exc, hs.msg, warnings)
      ELSE DatasetSplit(kwargs, [c EXCEPT !.data_handlers = hs.val], warnings)
  ELSE DatasetSplit(kwargs, c, warnings)

\* DatasetSampling with a slip: the type of the ratio is asserted, its range
\* is not.
DatasetSamplingUnchecked(kwargs, c, warnings) ==
  IF HasKey(kwargs, S("sampling")) /\ GetItem(kwargs, S("sampling")) # None
  THEN LET ratio == GetItem(kwargs, S("sampling")) IN
    IF ~IsFloatOrInt(ratio)
    THEN Raise("AssertionError", "sampling ratio should be float and in range [0.0,1.0]", warnings)
    ELSE DatasetHandlers(kwargs, [c EXCEPT !.sampling = ToFloat(ratio)], warnings)
  ELSE DatasetHandlers(kwargs, c, warnings)

\* Lines 101-107.
DatasetSampling(kwargs, c, warnings) ==
  IF HasKey(kwargs, S("sampling")) /\ GetItem(kwargs, S("sampling")) # None
  THEN LET ratio == GetItem(kwargs, S("sampling")) IN
    IF ~(IsFloatOrInt(ratio) /\ InUnitInterval(ratio))
    THEN Raise("AssertionError", "sampling ratio should be float and in range [0.0,1.0]", warnings)
    ELSE DatasetHandlers(kwargs, [c EXCEPT !.sampling = ToFloat(ratio)], warnings)
  ELSE DatasetHandlers(kwargs, c, warnings)

\* Lines 94-100.
DatasetBuilder(kwargs, c, warnings) ==
  IF HasKey(kwargs, S("builder")) /\ GetItem(kwargs, S("builder")) # None
  THEN LET builder == GetItem(kwargs, S("builder")) IN
    IF ~IsStr(builder)
    THEN Raise("AssertionError", "builder should be a string", warnings)
    ELSE DatasetSampling(kwargs, [c EXCEPT !.builder = builder], warnings)
  ELSE DatasetSampling(kwargs, c, warnings)

\* DatasetPaths with a slip: a missing data_paths is read as an empty list
\* (kwargs.get("data_paths", [])) instead of being an error.
DatasetPathsDefaulted(kwargs, c) ==
  IF HasKey(kwargs, S("name")) /\ ~IsStr(GetItem(kwargs, S("name")))
  THEN Raise("AssertionError", "dataset name should be string", <<>>)
  ELSE LET data_paths == GetOr(kwargs, S("data_paths"), List(<<>>)) IN
    IF ~IsList(data_paths)
    THEN Raise("AssertionError", "data_paths should be an array of files", <<>>)
    ELSE LET ps == PathsLoop(data_paths.v, 1, <<>>, <<>>) IN
      IF ps.kind = "raise" THEN ps
      ELSE DatasetBuilder(kwargs, [c EXCEPT !.data_paths = ps.val], ps.log)

\* Lines 79-93.
DatasetPaths(kwargs, c) ==
  IF HasKey(kwargs, S("name")) /\ ~IsStr(GetItem(kwargs, S("name")))
  THEN Raise("AssertionError", "dataset name should be string", <<>>)
  ELSE IF ~HasKey(kwargs, S("data_paths"))
  THEN Raise("ValueError", "data_paths should be specified for each dataset", <<>>)
  ELSE LET data_paths == GetItem(kwargs, S("data_paths")) IN
    IF ~IsList(data_paths)
    THEN Raise("AssertionError", "data_paths should be an array of files", <<>>)
    ELSE LET ps == PathsLoop(data_paths.v, 1, <<>>, <<>>) IN
      IF ps.kind = "raise" THEN ps
      ELSE DatasetBuilder(kwargs, [c EXCEPT !.data_paths = ps.val], ps.log)

_validate_dataset_config(dataset_config) ==
  LET kwargs == dataset_config IN
  IF ~IsDict(kwargs)
  THEN Raise("AssertionError", "dataset_config in data_config needs to be a dict", <<>>)
  ELSE DatasetPaths(kwargs,
         [t |-> "DataSetConfig",
          name |-> GetOr(kwargs, S("name"), Str(<<>>)),
          data_paths |-> List(<<>>),
          builder |-> None,
          sampling |-> None,
          data_handlers |-> None,
          split |-> None])

(***************************************************************************)
(* base64.b64decode and bytes.decode("utf-8"), as line 165-166 use them.   *)
(***************************************************************************)
\* The base64 alphabet: A-Z, a-z, 0-9, "+", "/".  A character's value is its
\* position in it, counted from 0.
B64Alphabet ==
  <<65, 66, 67, 68, 69, 70, 71, 72, 73, 74, 75, 76, 77, 78, 79, 80, 81, 82, 83,
    84, 85, 86, 87, 88, 89, 90, 97, 98, 99, 100, 101, 102, 103, 104, 105, 106,
    107, 108, 109, 110, 111, 112, 113, 114, 115, 116, 117, 118, 119, 120, 121,
    122, 48, 49, 50, 51, 52, 53, 54, 55, 56, 57, 43, 47>>
InB64Alphabet(ch) == \E k \in 1..Len(B64Alphabet) : B64Alphabet[k] = ch
B64Value(ch) == (CHOOSE k \in 1..Len(B64Alphabet) : B64Alphabet[k] = ch) - 1

DecodeOk(value) == [ok |-> TRUE, v |-> value]
DecodeError == [ok |-> FALSE, v |-> <<>>]

\* binascii.a2b_base64 without strict_mode, from character i on: a character
\* outside the alphabet is skipped, "=" completing a quad ends the input,
\* whatever follows it, and an incomplete quad at the end is an error.
RECURSIVE A2bBase64(_, _, _, _, _, _)
A2bBase64(s, i, quad_pos, leftchar, pads, bin) ==
  IF i > Len(s)
  THEN IF quad_pos # 0 THEN DecodeError ELSE DecodeOk(bin)
  ELSE IF s[i] = 61
  THEN IF quad_pos >= 2 /\ quad_pos + pads + 1 >= 4
       THEN DecodeOk(bin)
       ELSE A2bBase64(s, i + 1, quad_pos, leftchar,
                      IF quad_pos >= 2 THEN pads + 1 ELSE pads, bin)
  ELSE IF ~InB64Alphabet(s[i])
  THEN A2bBase64(s, i + 1, quad_pos, leftchar, pads, bin)
  ELSE LET this_ch == B64Value(s[i]) IN
    CASE quad_pos = 0 -> A2bBase64(s, i + 1, 1, this_ch, 0, bin)
      [] quad_pos = 1 -> A2bBase64(s, i + 1, 2, this_ch % 16, 0,
                                   Append(bin, leftchar * 4 + (this_ch \div 16)))
      [] quad_pos = 2 -> A2bBase64(s, i + 1, 3, this_ch % 4, 0,
                                   Append(bin, leftchar * 16 + (this_ch \div 4)))
      [] quad_pos = 3 -> A2bBase64(s, i + 1, 0, 0, 0,
                                   Append(bin, leftchar * 64 + this_ch))

\* b64decode with a slip: called with validate=True, so that any character
\* outside the alphabet, and any length that is not a multiple of 4, is an
\* error.
b64decodeValidating(s) ==
  IF \/ \E i \in 1..Len(s) : s[i] # 61 /\ ~InB64Alphabet(s[i])
     \/ Len(s) % 4 # 0
  THEN DecodeError
  ELSE A2bBase64(s, 1, 0, 0, 0, <<>>)

\* b64decode(s) for a str s: s is encoded as ASCII first, which fails on any
\* other character.
b64decode(s) ==
  IF \E i \in 1..Len(s) : s[i] > 127 THEN DecodeError
  ELSE A2bBase64(s, 1, 0, 0, 0, <<>>)

\* bytes.decode("utf-8"), from byte i on: the code points, or an error on a
\* byte sequence that is not well-formed UTF-8.
IsContinuation(bytes, k) == k <= Len(bytes) /\ bytes[k] >= 128 /\ bytes[k] <= 191
RECURSIVE Utf8Decode(_, _, _)
Utf8Decode(bytes, i, text) ==
  IF i > Len(bytes) THEN DecodeOk(text)
  ELSE LET b == bytes[i] IN
    IF b < 128 THEN Utf8Decode(bytes, i + 1, Append(text, b))
    ELSE IF b >= 194 /\ b <= 223
    THEN IF ~IsContinuation(bytes, i + 1) THEN DecodeError
         ELSE Utf8Decode(bytes, i + 2,
                Append(text, (b % 32) * 64 + (bytes[i + 1] % 64)))
    ELSE IF b >= 224 /\ b <= 239
    THEN IF \/ ~(IsContinuation(bytes, i + 1) /\ IsContinuation(bytes, i + 2))
            \/ (b = 224 /\ bytes[i + 1] < 160)
            \/ (b = 237 /\ bytes[i + 1] > 159)
         THEN DecodeError
         ELSE Utf8Decode(bytes, i + 3,
                Append(text, (b % 16) * 4096 + (bytes[i + 1] % 64) * 64
                             + (bytes[i + 2] % 64)))
    ELSE IF b >= 240 /\ b <= 244
    THEN IF \/ ~(/\ IsContinuation(bytes, i + 1) /\ IsContinuation(bytes, i + 2)
                 /\ IsContinuation(bytes, i + 3))
            \/ (b = 240 /\ bytes[i + 1] < 144)
            \/ (b = 244 /\ bytes[i + 1] > 143)
         THEN DecodeError
         ELSE Utf8Decode(bytes, i + 4,
                Append(text, (b % 8) * 262144 + (bytes[i + 1] % 64) * 4096
                             + (bytes[i + 2] % 64) * 64 + (bytes[i + 3] % 64)))
    ELSE DecodeError

\* Lines 165-166: b64decode(chat_template_base64).decode("utf-8").
DecodeChatTemplate(s) ==
  LET chat_template_bytes == b64decode(s) IN
  IF ~chat_template_bytes.ok THEN DecodeError
  ELSE Utf8Decode(chat_template_bytes.v, 1, <<>>)

(***************************************************************************)
(* _validate_dataprocessor_config                                          *)
(***************************************************************************)
DeprecationWarning == [event |-> "chat_template_base64_deprecated"]

\* ProcessorChatTemplate with a slip: the two branches are swapped, so that
\* chat_template_base64 is looked at first.
ProcessorChatTemplateBase64First(kwargs, c) ==
  IF HasKey(kwargs, S("chat_template_base64"))
  THEN LET chat_template_base64 == GetItem(kwargs, S("chat_template_base64")) IN
    IF ~IsStr(chat_template_base64)
    THEN Raise("AssertionError", "chat_template_base64 should be a string", <<>>)
    ELSE LET chat_template == DecodeChatTemplate(chat_template_base64.v) IN
      IF ~chat_template.ok
      THEN Raise("ValueError",
                 "You passed the 'chat_template_base64' field which failed during decoding.",
                 <<DeprecationWarning>>)
      ELSE Return([c EXCEPT !.chat_template = Str(chat_template.v)],
                  <<DeprecationWarning>>)
  ELSE IF HasKey(kwargs, S("chat_template"))
  THEN LET chat_template == GetItem(kwargs, S("chat_template")) IN
    IF ~IsStr(chat_template)
    THEN Raise("AssertionError", "chat_template should be a string", <<>>)
    ELSE Return([c EXCEPT !.chat_template = chat_template], <<>>)
  ELSE Return(c, <<>>)

\* Lines 151-173.
ProcessorChatTemplate(kwargs, c) ==
  IF HasKey(kwargs, S("chat_template"))
  THEN LET chat_template == GetItem(kwargs, S("chat_template")) IN
    IF ~IsStr(chat_template)
    THEN Raise("AssertionError", "chat_template should be a string", <<>>)
    ELSE Return([c EXCEPT !.chat_template = chat_template], <<>>)
  ELSE IF HasKey(kwargs, S("chat_template_base64"))
  THEN LET chat_template_base64 == GetItem(kwargs, S("chat_template_base64")) IN
    IF ~IsStr(chat_template_base64)
    THEN Raise("AssertionError", "chat_template_base64 should be a string", <<>>)
    ELSE LET chat_template == DecodeChatTemplate(chat_template_base64.v) IN
      IF ~chat_template.ok
      THEN Raise("ValueError",
                 "You passed the 'chat_template_base64' field which failed during decoding.",
                 <<DeprecationWarning>>)
      ELSE Return([c EXCEPT !.chat_template = Str(chat_template.v)],
                  <<DeprecationWarning>>)
  ELSE Return(c, <<>>)

\* Lines 147-150.
ProcessorStreaming(kwargs, c) ==
  IF HasKey(kwargs, S("streaming"))
  THEN LET streaming == GetItem(kwargs, S("streaming")) IN
    IF ~IsBoolInstance(streaming)
    THEN Raise("AssertionError", "streaming should be a bool", <<>>)
    ELSE ProcessorChatTemplate(kwargs, [c EXCEPT !.streaming = streaming])
  ELSE ProcessorChatTemplate(kwargs, c)

\* Lines 143-146.
ProcessorSeed(kwargs, c) ==
  IF HasKey(kwargs, S("seed"))
  THEN LET seed == GetItem(kwargs, S("seed")) IN
    IF ~IsIntInstance(seed)
    THEN Raise("AssertionError", "seed should be int", <<>>)
    ELSE ProcessorStreaming(kwargs, [c EXCEPT !.seed = seed])
  ELSE ProcessorStreaming(kwargs, c)

\* Lines 133-142.
ProcessorStrategy(kwargs, c) ==
  IF HasKey(kwargs, S("sampling_stopping_strategy"))
  THEN LET strategy == GetItem(kwargs, S("sampling_stopping_strategy")) IN
    IF ~IsStr(strategy)
    THEN Raise("AssertionError", "dataset sampling stopping strategy must be a string", <<>>)
    ELSE IF strategy \notin {S("first_exhausted"), S("all_exhausted")}
    THEN Raise("AssertionError",
               "allowed sampling stopping strategies are all_exhausted(default) or first_exhausted",
               <<>>)
    ELSE ProcessorSeed(kwargs, [c EXCEPT !.sampling_stopping_strategy = strategy])
  ELSE ProcessorSeed(kwargs, c)

\* DataPreProcessorConfig(): the defaults of the dataclass.
DataPreProcessorConfig ==
  [t |-> "DataPreProcessorConfig",
   type |-> S("default"),
   sampling_stopping_strategy |-> S("all_exhausted"),
   seed |-> PyInt(42),
   streaming |-> PyBool(FALSE),
   chat_template |-> None]

_validate_dataprocessor_config(dataprocessor_config) ==
  LET kwargs == dataprocessor_config
      c == DataPreProcessorConfig
  IN
  IF ~IsDict(kwargs)
  THEN Raise("AssertionError", "dataprocessor in data_config needs to be a dict", <<>>)
  ELSE IF HasKey(kwargs, S("type"))
  THEN IF ~IsStr(GetItem(kwargs, S("type")))
       THEN Raise("AssertionError", "dataprocessor type must be a string", <<>>)
       ELSE ProcessorStrategy(kwargs, [c EXCEPT !.type = GetItem(kwargs, S("type"))])
  ELSE ProcessorStrategy(kwargs, c)

(***************************************************************************)
(* load_and_validate_data_config                                           *)
(***************************************************************************)
\* The loop over raw_data["datasets"] (lines 192-193), from element i on.
RECURSIVE DatasetsLoop(_, _, _, _)
DatasetsLoop(raw_datasets, i, datasets, warnings) ==
  IF i > Len(raw_datasets) THEN Return(List(datasets), warnings)
  ELSE LET d == _validate_dataset_config(raw_datasets[i]) IN
    IF d.kind = "raise" THEN Raise(d.exc, d.msg, warnings \o d.log)
    ELSE DatasetsLoop(raw_datasets, i + 1, Append(datasets, d.val), warnings \o d.log)

\* LoadDataprocessor with a default: a document without dataprocessor gets
\* DataPreProcessorConfig().
LoadDataprocessorDefaulted(raw_data, datasets, warnings) ==
  LET dataprocessor ==
        IF HasKey(raw_data, S("dataprocessor"))
        THEN _validate_dataprocessor_config(GetItem(raw_data, S("dataprocessor")))
        ELSE Return(DataPreProcessorConfig, <<>>)
  IN IF dataprocessor.kind = "raise"
     THEN Raise(dataprocessor.exc, dataprocessor.msg, warnings \o dataprocessor.log)
     ELSE Return([t |-> "DataConfig",
                  dataprocessor |-> dataprocessor.val,
                  datasets |-> datasets],
                 warnings \o dataprocessor.log)

\* Lines 194-198.  The local `dataprocessor` is bound only inside the `if`.
LoadDataprocessor(raw_data, datasets, warnings) ==
  IF HasKey(raw_data, S("dataprocessor"))
  THEN LET dataprocessor ==
         _validate_dataprocessor_config(GetItem(raw_data, S("dataprocessor")))
       IN IF dataprocessor.kind = "raise"
          THEN Raise(dataprocessor.exc, dataprocessor.msg, warnings \o dataprocessor.log)
          ELSE Return([t |-> "DataConfig",
                       dataprocessor |-> dataprocessor.val,
                       datasets |-> datasets],
                      warnings \o dataprocessor.log)
  ELSE Raise("UnboundLocalError",
             "cannot access local variable 'dataprocessor' where it is not associated with a value",
             warnings)

\* raw_data is what load_yaml_or_json returned for data_config_file.
load_and_validate_data_config(raw_data) ==
  IF ~IsDict(raw_data)
  THEN Raise("AssertionError", "The provided data_config file is invalid", <<>>)
  ELSE IF ~HasKey(raw_data, S("datasets"))
  THEN Raise("AssertionError", "datasets should be provided in data config", <<>>)
  ELSE IF ~IsList(GetItem(raw_data, S("datasets")))
  THEN Raise("AssertionError", "datasets should be provided as a list", <<>>)
  ELSE LET datasets == DatasetsLoop(GetItem(raw_data, S("datasets")).v, 1, <<>>, <<>>) IN
    IF datasets.kind = "raise" THEN datasets
    ELSE LoadDataprocessor(raw_data, datasets.val, datasets.log)

(***************************************************************************)
(* The data handlers (tuning/data/data_handlers.py) and the dataset engine *)
(* that applies them, as tests/data/test_data_handlers.py uses them.       *)
(***************************************************************************)
\* A record is a dict from column names to values.  len(value):
PyLen(value) == Len(value.v)

\* A filter handler: keep the record iff its column is no longer than
\* max_allowed_length.
skip_samples_with_large_columnsExclusive(element, fn_kwargs) ==
  LET column_name == GetOr(fn_kwargs, S("column_name"), None)
      max_allowed_length == GetOr(fn_kwargs, S("max_allowed_length"), None)
  IN IF \/ ~IsStr(column_name) \/ max_allowed_length.t # "int"
        \/ ~HasKey(element, column_name)
     THEN Raise("ValueError", "column_name and max_allowed_length must be valid", <<>>)
     ELSE Return(PyBool(PyLen(GetItem(element, column_name)) < max_allowed_length.v), <<>>)

skip_samples_with_large_columns(element, fn_kwargs) ==
  LET column_name == GetOr(fn_kwargs, S("column_name"), None)
      max_allowed_length == GetOr(fn_kwargs, S("max_allowed_length"), None)
  IN IF \/ ~IsStr(column_name) \/ max_allowed_length.t # "int"
        \/ ~HasKey(element, column_name)
     THEN Raise("ValueError", "column_name and max_allowed_length must be valid", <<>>)
     ELSE Return(PyBool(PyLen(GetItem(element, column_name)) <= max_allowed_length.v), <<>>)

\* A map handler with a slip: the record is returned without the new column.
duplicate_columnsForgetful(element, fn_kwargs) ==
  LET existing_column_name == GetOr(fn_kwargs, S("existing_column_name"), None)
      new_column_name == GetOr(fn_kwargs, S("new_column_name"), None)
  IN IF ~IsStr(existing_column_name) \/ ~IsStr(new_column_name)
     THEN Raise("ValueError", "both old and new column name must be specified", <<>>)
     ELSE IF ~HasKey(element, existing_column_name)
     THEN Raise("ValueError", "column to duplicate is not in the dataset", <<>>)
     ELSE IF HasKey(element, new_column_name)
     THEN Raise("ValueError", "new column is already present in the dataset", <<>>)
     ELSE Return(element, <<>>)

\* A map handler: the record with new_column_name added as a copy of the
\* value at existing_column_name.  The test expects a ValueError as well when
\* a tokenized record, which has a labels column already, is asked for labels.
duplicate_columns(element, fn_kwargs) ==
  LET existing_column_name == GetOr(fn_kwargs, S("existing_column_name"), None)
      new_column_name == GetOr(fn_kwargs, S("new_column_name"), None)
  IN IF ~IsStr(existing_column_name) \/ ~IsStr(new_column_name)
     THEN Raise("ValueError", "both old and new column name must be specified", <<>>)
     ELSE IF ~HasKey(element, existing_column_name)
     THEN Raise("ValueError", "column to duplicate is not in the dataset", <<>>)
     ELSE IF HasKey(element, new_column_name)
     THEN Raise("ValueError", "new column is already present in the dataset", <<>>)
     ELSE Return(Dict(Append(element.v,
                             <<new_column_name, GetItem(element, existing_column_name)>>)),
                 <<>>)

(***************************************************************************)
(* The raw values the validators are called with.                          *)
(***************************************************************************)
SeqsUpTo(elems, n) == UNION {[1..k -> elems] : k \in 0..n}

\* A key that the raw mapping does not have.
Absent == [t |-> "absent"]
Item(word, value) == IF value = Absent THEN <<>> ELSE << <<S(word), value>> >>

\* "tokenize", "dup", "extra", "d", "j", "x", "train", "test"
Tokenize == Str(<<116, 111, 107, 101, 110, 105, 122, 101>>)
Dup == Str(<<100, 117, 112>>)
Extra == Str(<<101, 120, 116, 114, 97>>)
Train == Str(<<116, 114, 97, 105, 110>>)
Test == Str(<<116, 101, 115, 116>>)

\* Handler entries of every shape.
HandlerInputs ==
  {None, Tokenize, List(<<>>)} \cup
  { Dict(Item("name", n) \o Item("arguments", a) \o x) :
      n \in {Absent, None, PyInt(1), Str(<<>>), Tokenize, Dup},
      a \in {Absent, None, List(<<>>), Dict(<<>>), Dict(<< <<Str(<<120>>), PyInt(1)>> >>)},
      x \in {<<>>, << <<Extra, PyInt(1)>> >>, << <<PyInt(1), PyInt(1)>> >>} }

\* The handler entries that the data_handlers lists of dataset entries are
\* made of: two that differ and are accepted, one that is rejected.
HandlerTokenize == Dict(Item("name", Tokenize) \o Item("arguments", Dict(<<>>)))
HandlerUnnamed == Dict(Item("name", Str(<<>>)) \o Item("arguments", Dict(<<>>)))
HandlerNoArguments == Dict(Item("name", Dup))

\* "/d" (absolute), "a" (relative, /w/a exists), "b" (relative, no /w/b)
PathInputs == {Str(<<47, 100>>), Str(<<97>>), Str(<<98>>)}

DataPathsInputs ==
  {Absent, Str(<<97>>), List(<<PyInt(7)>>), List(<<Str(<<97>>), PyInt(7)>>)} \cup
  {List(ps) : ps \in SeqsUpTo(PathInputs, MaxPaths)}

SamplingInputs ==
  {Absent, None, PyInt(0), PyInt(1), PyInt(2), Float(0 - 1), Float(5),
   Float(15), NaN, PyBool(TRUE), Str(<<120>>)}

DataHandlersInputs ==
  {Absent, None, Dict(<<>>),
   List(<<HandlerNoArguments>>), List(<<HandlerTokenize, HandlerNoArguments>>)} \cup
  {List(hs) : hs \in SeqsUpTo({HandlerTokenize, HandlerUnnamed}, MaxHandlers)}

SplitInputs ==
  {Absent,
   Dict(<< <<Train, Float(8)>>, <<Test, PyInt(0)>> >>),
   Dict(<< <<Train, Float(15)>> >>),
   Dict(<< <<PyInt(1), Float(5)>> >>)}

DatasetInputs ==
  {None, List(<<>>)} \cup
  { Dict(Item("name", n) \o Item("data_paths", p) \o Item("builder", b)
         \o Item("sampling", r) \o Item("data_handlers", h) \o Item("split", s)) :
      n \in {Absent, Str(<<100>>), PyInt(1)},
      p \in DataPathsInputs,
      b \in {Absent, Str(<<106>>), PyInt(1)},
      r \in SamplingInputs,
      h \in DataHandlersInputs,
      s \in SplitInputs }

\* "Hi"
Hi == Str(<<72, 105>>)

\* The characters chat_template_base64 strings are made of: "Q", "w", "7" of
\* the alphabet, the padding "=" and "!", which is outside the alphabet.
\* "QQ==" encodes "A"; "w7w=" encodes the two bytes of U+00FC; "ww==" encodes
\* the lone byte 0xC3, which is not UTF-8.
B64Chars == {81, 119, 55, 61, 33}

ChatTemplateBase64Inputs ==
  {Absent, PyInt(1), Str(<<233>>)} \cup
  {Str(cs) : cs \in SeqsUpTo(B64Chars, MaxB64Len)}

DataprocessorDict(ty, st, se, sm, ct, cb) ==
  Dict(Item("type", ty) \o Item("sampling_stopping_strategy", st) \o Item("seed", se)
       \o Item("streaming", sm) \o Item("chat_template", ct)
       \o Item("chat_template_base64", cb))

\* Every combination of the other fields with a few chat templates, and every
\* chat template with a few combinations of the other fields.
DataprocessorInputs ==
  {None, List(<<>>)} \cup
  { DataprocessorDict(ty, st, se, sm, ct, cb) :
      ty \in {Absent, Str(<<120>>), PyInt(1)},
      st \in {Absent, S("first_exhausted"), S("all_exhausted"), Str(<<120>>), PyInt(1)},
      se \in {Absent, PyInt(7), PyBool(TRUE), Str(<<120>>)},
      sm \in {Absent, PyBool(TRUE), PyInt(1)},
      ct \in {Absent, Hi},
      cb \in {Absent, Str(<<81, 81, 61, 61>>)} } \cup
  { DataprocessorDict(Absent, st, Absent, sm, ct, cb) :
      st \in {Absent, Str(<<120>>)},
      sm \in {Absent, PyBool(TRUE)},
      ct \in {Absent, Hi, Str(<<>>), None},
      cb \in ChatTemplateBase64Inputs }

\* The dataset entries and the dataprocessor entries that raw documents are
\* made of.
DocumentDatasetInputs ==
  { Dict(Item("data_paths", List(<<Str(<<47, 100>>)>>))),
    Dict(Item("name", Str(<<100>>)) \o Item("data_paths", List(<<Str(<<97>>)>>))
         \o Item("sampling", PyInt(1))),
    Dict(Item("name", Str(<<100>>))),
    Dict(Item("data_paths", List(<<Str(<<47, 100>>)>>)) \o Item("sampling", PyInt(2))),
    Dict(Item("data_paths", List(<<>>))) }

DocumentDataprocessorInputs ==
  { Absent, None, Dict(<<>>),
    DataprocessorDict(Absent, Str(<<120>>), Absent, Absent, Absent, Absent),
    DataprocessorDict(Absent, Absent, Absent, Absent, Absent, Str(<<81, 81, 61, 61>>)) }

DocumentInputs ==
  {None, List(<<>>)} \cup
  { Dict(Item("datasets", ds) \o Item("dataprocessor", dp)) :
      ds \in {Absent, None} \cup
             {List(es) : es \in SeqsUpTo(DocumentDatasetInputs, MaxDatasets)},
      dp \in DocumentDataprocessorInputs }

\* range(0, n), the column value the test's generator yields.
Range(n) == List([k \in 1..n |-> PyInt(k - 1)])
InputRecord(n) == Dict(<< <<S("input"), Range(n)>> >>)

\* test_skip_large_columns_handler: 100 records, of lengths 1..100, filtered
\* with max_allowed_length 60.
TestRecords == 100
TestMaxAllowedLength == 60
TestDataset == [i \in 1..TestRecords |-> InputRecord(i)]

FilterDatasets ==
  {[i \in 1..Len(ns) |-> InputRecord(ns[i])] : ns \in SeqsUpTo(0..MaxColLen, MaxRecords)}

FilterKwargs ==
  { Dict(Item("column_name", cn) \o Item("max_allowed_length", ml)) :
      cn \in {None, S("input"), PyInt(1024), S("not_existing")},
      ml \in {None, S("not_existing")} \cup {PyInt(n) : n \in 0..MaxColLen} }

\* Records as the test's files hold them: tokenized with input_ids only,
\* tokenized with input_ids and labels, and not tokenized.
MapRecords ==
  { Dict(<< <<S("input_ids"), Range(2)>> >>),
    Dict(<< <<S("input_ids"), Range(3)>> >>),
    Dict(<< <<S("input_ids"), Range(2)>>, <<S("labels"), Range(1)>> >>),
    Dict(<< <<S("input"), Range(1)>> >>) }

MapDatasets == SeqsUpTo(MapRecords, MaxRecords)

MapKwargs ==
  { Dict(Item("existing_column_name", old) \o Item("new_column_name", new)) :
      old \in {Absent, None, PyInt(1), S("input_ids"), S("input")},
      new \in {Absent, None, PyInt(1), S("labels"), S("input_ids")} }

(***************************************************************************)
(* The calls.                                                              *)
(***************************************************************************)
\* What the caller of a call sees: the value returned or the exception raised.
Outcome(r) ==
  IF r.kind = "ok" THEN [kind |-> "ok", val |-> r.val]
  ELSE [kind |-> "raise", exc |-> r.exc, msg |-> r.msg]

Called(operation, argument, r) ==
  /\ call' = operation
  /\ arg' = argument
  /\ ret' = Outcome(r)
  /\ log' = r.log
  /\ UNCHANGED <<pending, out>>

CallValidateDataHandler ==
  /\ call = "idle"
  /\ \E h \in HandlerInputs :
       Called("_validate_data_handler_config", h, _validate_data_handler_config(h))

CallValidateDataset ==
  /\ call = "idle"
  /\ \E d \in DatasetInputs :
       Called("_validate_dataset_config", d, _validate_dataset_config(d))

CallValidateDataprocessor ==
  /\ call = "idle"
  /\ \E p \in DataprocessorInputs :
       Called("_validate_dataprocessor_config", p, _validate_dataprocessor_config(p))

CallLoadAndValidate ==
  /\ call = "idle"
  /\ \E raw_data \in DocumentInputs :
       Called("load_and_validate_data_config", raw_data,
              load_and_validate_data_config(raw_data))

\* Dataset.filter(function, fn_kwargs=...) and Dataset.map(function,
\* fn_kwargs=...): the engine hands the records to the handler one at a time,
\* in order, and an exception of the handler ends the operation.
Start(operation, dataset, fn_kwargs) ==
  /\ call' = operation
  /\ arg' = [dataset |-> dataset, fn_kwargs |-> fn_kwargs]
  /\ ret' = [kind |-> "running"]
  /\ pending' = dataset
  /\ out' = <<>>
  /\ UNCHANGED log

StartFilter ==
  /\ call = "idle"
  /\ \/ \E dataset \in FilterDatasets, fn_kwargs \in FilterKwargs :
          Start("filter", dataset, fn_kwargs)
     \/ Start("filter", TestDataset,
              Dict(Item("column_name", S("input"))
                   \o Item("max_allowed_length", PyInt(TestMaxAllowedLength))))

FilterStep ==
  /\ call = "filter" /\ ret.kind = "running" /\ pending # <<>>
  /\ LET keep == skip_samples_with_large_columns(Head(pending), arg.fn_kwargs) IN
       IF keep.kind = "raise"
       THEN /\ ret' = Outcome(keep)
            /\ UNCHANGED <<pending, out>>
       ELSE /\ pending' = Tail(pending)
            /\ out' = IF keep.val.v THEN Append(out, Head(pending)) ELSE out
            /\ UNCHANGED ret
  /\ UNCHANGED <<call, arg, log>>

StartMap ==
  /\ call = "idle"
  /\ \E dataset \in MapDatasets, fn_kwargs \in MapKwargs :
       Start("map", dataset, fn_kwargs)

MapStep ==
  /\ call = "map" /\ ret.kind = "running" /\ pending # <<>>
  /\ LET updated == duplicate_columns(Head(pending), arg.fn_kwargs) IN
       IF updated.kind = "raise"
       THEN /\ ret' = Outcome(updated)
            /\ UNCHANGED <<pending, out>>
       ELSE /\ pending' = Tail(pending)
            /\ out' = Append(out, updated.val)
            /\ UNCHANGED ret
  /\ UNCHANGED <<call, arg, log>>

\* The operation returns the dataset of the records produced.
Finish ==
  /\ call \in {"filter", "map"} /\ ret.kind = "running" /\ pending = <<>>
  /\ ret' = [kind |-> "ok", val |-> out]
  /\ UNCHANGED <<call, arg, log, pending, out>>

Init ==
  /\ call = "idle"
  /\ arg = None
  /\ ret = [kind |-> "none"]
  /\ log = <<>>
  /\ pending = <<>>
  /\ out = <<>>

NextDataset == CallValidateDataHandler \/ CallValidateDataset
SpecDataset == Init /\ [][NextDataset]_vars

NextDataprocessor == CallValidateDataprocessor
SpecDataprocessor == Init /\ [][NextDataprocessor]_vars

NextLoad == CallLoadAndValidate
SpecLoad == Init /\ [][NextLoad]_vars

NextHandlers == StartFilter \/ FilterStep \/ StartMap \/ MapStep \/ Finish
SpecHandlers == Init /\ [][NextHandlers]_vars
(***************************************************************************)
(* Properties of _validate_data_handler_config and                         *)
(* _validate_dataset_config, checked under SpecDataset.                    *)
(***************************************************************************)
DatasetCalled == call = "_validate_dataset_config" /\ IsDict(arg)
Raised(exception, message) ==
  ret = [kind |-> "raise", exc |-> exception, msg |-> message]
MissingDataPaths == Raised("ValueError", "data_paths should be specified for each dataset")

\* C2 as stated: every dataset entry without a data_paths key fails with the
\* missing-field ValueError, whatever its other fields contain.
C2_MissingDataPathsAlways ==
  DatasetCalled /\ ~HasKey(arg, S("data_paths")) => MissingDataPaths

\* C2 as amended: a dataset entry without a data_paths key fails with the
\* missing-field ValueError whatever its builder, sampling, data_handlers and
\* split contain, provided its name is absent or a string; when its name is
\* present and not a string it fails before that, with the AssertionError
\* "dataset name should be string".
C2_MissingDataPaths ==
  DatasetCalled /\ ~HasKey(arg, S("data_paths")) =>
    IF HasKey(arg, S("name")) /\ GetItem(arg, S("name")).t # "str"
    THEN Raised("AssertionError", "dataset name should be string")
    ELSE MissingDataPaths

\* An entry with a string name, no data_paths and an invalid builder, sampling
\* and split has failed with the missing-field error.
C2_Witness ==
  /\ DatasetCalled /\ ~HasKey(arg, S("data_paths"))
  /\ HasKey(arg, S("name")) /\ GetItem(arg, S("name")).t = "str"
  /\ HasKey(arg, S("builder")) /\ GetItem(arg, S("builder")) = PyInt(1)
  /\ HasKey(arg, S("sampling")) /\ GetItem(arg, S("sampling")) = Float(15)
  /\ HasKey(arg, S("split")) /\ GetItem(arg, S("split")).v[1][1] = PyInt(1)
  /\ MissingDataPaths

\* C3: an accepted entry's data_paths is a non-empty list of strings with the
\* length and order of the input (each path kept, or rewritten to its absolute
\* form); an input that is empty, not a list or holds a non-string is rejected.
C3_DataPathsNonEmpty ==
  DatasetCalled /\ HasKey(arg, S("data_paths")) =>
    LET input == GetItem(arg, S("data_paths"))
        stored == ret.val.data_paths
    IN /\ ~(/\ input.t = "list" /\ Len(input.v) > 0
            /\ \A i \in 1..Len(input.v) : input.v[i].t = "str") => ret.kind = "raise"
       /\ ret.kind = "ok" =>
            /\ stored.t = "list" /\ Len(stored.v) > 0 /\ Len(stored.v) = Len(input.v)
            /\ \A i \in 1..Len(stored.v) :
                 /\ stored.v[i].t = "str"
                 /\ stored.v[i].v \in {input.v[i].v, <<47, 119, 47>> \o input.v[i].v}

\* C4 as stated: a sampling that is present and not a number in [0.0, 1.0]
\* makes validation fail; an accepted entry stores no sampling, or a float in
\* [0.0, 1.0] equal in value to the input.
C4_SamplingPresentChecked ==
  DatasetCalled =>
    LET present == HasKey(arg, S("sampling"))
        ratio == GetItem(arg, S("sampling"))
        number == ratio.t \in {"int", "bool"} \/ (ratio.t = "float" /\ ~ratio.nan)
        value == IF ratio.t = "float" THEN ratio.v
                 ELSE IF ratio.t = "int" THEN 10 * ratio.v
                 ELSE IF ratio.v THEN 10 ELSE 0
    IN /\ present /\ ~(number /\ 0 <= value /\ value <= 10) => ret.kind = "raise"
       /\ ret.kind = "ok" =>
            \/ ret.val.sampling = None
            \/ /\ present
               /\ ret.val.sampling = [t |-> "float", v |-> value, nan |-> FALSE]
               /\ 0 <= value /\ value <= 10

\* C4 as amended: a sampling that is present, is not None and is not an int,
\* float or bool in [0.0, 1.0] makes validation fail; a sampling of None is
\* read as no sampling; an accepted entry stores no sampling when the input
\* has none or None, and otherwise the float in [0.0, 1.0] equal in value to
\* the input (0, 1, False and True coerced to 0.0, 1.0, 0.0 and 1.0).
C4_Sampling ==
  DatasetCalled =>
    LET given == HasKey(arg, S("sampling")) /\ GetItem(arg, S("sampling")).t # "none"
        ratio == GetItem(arg, S("sampling"))
        number == ratio.t \in {"int", "bool"} \/ (ratio.t = "float" /\ ~ratio.nan)
        value == IF ratio.t = "float" THEN ratio.v
                 ELSE IF ratio.t = "int" THEN 10 * ratio.v
                 ELSE IF ratio.v THEN 10 ELSE 0
    IN /\ given /\ ~(number /\ 0 <= value /\ value <= 10) => ret.kind = "raise"
       /\ ret.kind = "ok" =>
            IF given
            THEN /\ ret.val.sampling = [t |-> "float", v |-> value, nan |-> FALSE]
                 /\ 0 <= value /\ value <= 10
            ELSE ret.val.sampling = None

\* An entry that is valid but for its sampling of 1.5 has been rejected.
C4_Witness ==
  /\ DatasetCalled
  /\ HasKey(arg, S("sampling")) /\ GetItem(arg, S("sampling")) = Float(15)
  /\ HasKey(arg, S("data_paths")) /\ ~HasKey(arg, S("name")) /\ ~HasKey(arg, S("builder"))
  /\ Raised("AssertionError", "sampling ratio should be float and in range [0.0,1.0]")

\* C5: a handler entry is accepted if and only if it is a mapping with a
\* non-empty string name and a mapping arguments; a data_handlers list holding
\* any other shape makes the dataset entry fail; the accepted handlers are
\* stored in declaration order.
WellShapedHandler(h) ==
  /\ h.t = "dict"
  /\ HasKey(h, S("name")) /\ GetItem(h, S("name")).t = "str"
  /\ Len(GetItem(h, S("name")).v) > 0
  /\ HasKey(h, S("arguments")) /\ GetItem(h, S("arguments")).t = "dict"
C5_HandlerShape ==
  /\ call = "_validate_data_handler_config" => (ret.kind = "ok" <=> WellShapedHandler(arg))
  /\ DatasetCalled /\ HasKey(arg, S("data_handlers"))
       /\ GetItem(arg, S("data_handlers")).t = "list" =>
       LET handlers == GetItem(arg, S("data_handlers")).v IN
       /\ (\E i \in 1..Len(handlers) : ~WellShapedHandler(handlers[i])) => ret.kind = "raise"
       /\ ret.kind = "ok" =>
            /\ Len(ret.val.data_handlers.v) = Len(handlers)
            /\ \A i \in 1..Len(handlers) :
                 /\ ret.val.data_handlers.v[i].name = GetItem(handlers[i], S("name"))
                 /\ ret.val.data_handlers.v[i].arguments = GetItem(handlers[i], S("arguments"))

(***************************************************************************)
(* Properties of _validate_dataprocessor_config, checked under             *)
(* SpecDataprocessor.                                                      *)
(***************************************************************************)
DataprocessorCalled == call = "_validate_dataprocessor_config" /\ IsDict(arg)

\* Base64 and UTF-8 as the standards define them, stated without the decoding
\* loops above.  A base64 character's value:
SextetOf(ch) ==
  IF ch >= 65 /\ ch <= 90 THEN ch - 65
  ELSE IF ch >= 97 /\ ch <= 122 THEN ch - 71
  ELSE IF ch >= 48 /\ ch <= 57 THEN ch + 4
  ELSE IF ch = 43 THEN 62 ELSE 63
IsSextet(ch) ==
  \/ (ch >= 65 /\ ch <= 90) \/ (ch >= 97 /\ ch <= 122) \/ (ch >= 48 /\ ch <= 57)
  \/ ch \in {43, 47}
\* The sextets data[1..k] read as one number, most significant first.
RECURSIVE SextetsNumber(_, _)
SextetsNumber(data, k) ==
  IF k = 0 THEN 0 ELSE SextetsNumber(data, k - 1) * 64 + SextetOf(data[k])
\* The whole bytes that the sextets of data spell.
SextetsBytes(data) ==
  LET n == Len(data)
  IN [j \in 1..((6 * n) \div 8) |-> (SextetsNumber(data, n) \div 2^(6 * n - 8 * j)) % 256]

\* A base64 string in the strict sense of RFC 4648: whole quads of alphabet
\* characters, the last one ending in at most two "=".
StrictBase64(s) ==
  /\ Len(s) % 4 = 0
  /\ \A i \in 1..Len(s) : IsSextet(s[i]) \/ (s[i] = 61 /\ i >= Len(s) - 1)
  /\ Len(s) > 0 /\ s[Len(s) - 1] = 61 => s[Len(s)] = 61

\* What the lenient decoding reads of s: the characters that are neither of
\* the alphabet nor "=" are dropped; reading ends at the first "=" that
\* completes a quad (after three data characters, or as the second "=" after
\* two); without such an end the data characters must form whole quads.
LenientBase64(s) ==
  LET kept == SelectSeq(s, LAMBDA ch : ch = 61 \/ IsSextet(ch))
      dataBefore(i) == Cardinality({k \in 1..(i - 1) : kept[k] # 61})
      ends == {i \in 1..Len(kept) :
                 /\ kept[i] = 61
                 /\ \/ dataBefore(i) % 4 = 3
                    \/ dataBefore(i) % 4 = 2 /\ i > 1 /\ kept[i - 1] = 61}
      end == IF ends = {} THEN Len(kept) + 1
             ELSE CHOOSE i \in ends : \A j \in ends : i <= j
      data == SelectSeq(SubSeq(kept, 1, end - 1), LAMBDA ch : ch # 61)
  IN [ok |-> (\A i \in 1..Len(s) : s[i] <= 127) /\ (ends # {} \/ Len(data) % 4 = 0),
      bytes |-> SextetsBytes(data)]

\* Well-formed UTF-8 (Unicode, table 3-7): the bytes split into sequences of a
\* lead byte and its continuation bytes.
Utf8Length(b) ==
  IF b < 128 THEN 1 ELSE IF b >= 194 /\ b <= 223 THEN 2
  ELSE IF b >= 224 /\ b <= 239 THEN 3 ELSE IF b >= 240 /\ b <= 244 THEN 4 ELSE 0
WellFormedUtf8(bytes) ==
  \E starts \in SUBSET (1..Len(bytes)) :
    /\ \A p \in 1..Len(bytes) :
         (p \in starts) # (\E i \in starts : i < p /\ p < i + Utf8Length(bytes[i]))
    /\ \A i \in starts :
         /\ Utf8Length(bytes[i]) > 0
         /\ i + Utf8Length(bytes[i]) - 1 <= Len(bytes)
         /\ \A p \in (i + 1)..(i + Utf8Length(bytes[i]) - 1) :
              /\ p \notin starts
              /\ bytes[p] >= (IF p = i + 1 /\ bytes[i] = 224 THEN 160
                              ELSE IF p = i + 1 /\ bytes[i] = 240 THEN 144 ELSE 128)
              /\ bytes[p] <= (IF p = i + 1 /\ bytes[i] = 237 THEN 159
                              ELSE IF p = i + 1 /\ bytes[i] = 244 THEN 143 ELSE 191)
\* str.encode("utf-8") of code points.
RECURSIVE Utf8Encode(_)
Utf8Encode(text) ==
  IF text = <<>> THEN <<>>
  ELSE LET cp == Head(text) IN
    (IF cp < 128 THEN <<cp>>
     ELSE IF cp < 2048 THEN <<192 + (cp \div 64), 128 + (cp % 64)>>
     ELSE IF cp < 65536
     THEN <<224 + (cp \div 4096), 128 + ((cp \div 64) % 64), 128 + (cp % 64)>>
     ELSE <<240 + (cp \div 262144), 128 + ((cp \div 4096) % 64),
            128 + ((cp \div 64) % 64), 128 + (cp % 64)>>)
    \o Utf8Encode(Tail(text))
IsText(text) ==
  \A i \in 1..Len(text) :
    text[i] >= 0 /\ text[i] <= 1114111 /\ ~(text[i] >= 55296 /\ text[i] <= 57343)

\* The fields validated before the chat template are valid.
EarlierFieldsValid(kwargs) ==
  /\ HasKey(kwargs, S("type")) => GetItem(kwargs, S("type")).t = "str"
  /\ HasKey(kwargs, S("sampling_stopping_strategy")) =>
       GetItem(kwargs, S("sampling_stopping_strategy"))
         \in {S("first_exhausted"), S("all_exhausted")}
  /\ HasKey(kwargs, S("seed")) => GetItem(kwargs, S("seed")).t \in {"int", "bool"}
  /\ HasKey(kwargs, S("streaming")) => GetItem(kwargs, S("streaming")).t = "bool"
OnlyBase64Given ==
  /\ DataprocessorCalled
  /\ ~HasKey(arg, S("chat_template")) /\ HasKey(arg, S("chat_template_base64"))
DecodingFailed ==
  Raised("ValueError",
         "You passed the 'chat_template_base64' field which failed during decoding.")

C7_DirectFormWins ==
  DataprocessorCalled =>
    LET direct == _validate_dataprocessor_config(
                    Dict(SelectSeq(arg.v, LAMBDA item : item[1] # S("chat_template_base64"))))
    IN /\ HasKey(arg, S("chat_template")) =>
            /\ ret.kind = "ok" => ret.val.chat_template = GetItem(arg, S("chat_template"))
            /\ ret = Outcome(direct)
            /\ log = <<>>
            /\ ~DecodingFailed
       /\ ~HasKey(arg, S("chat_template")) /\ ~HasKey(arg, S("chat_template_base64")) =>
            (ret.kind = "ok" => ret.val.chat_template = None)

\* Both given, the base64 one undecodable ("Q"): the config is returned with
\* the direct chat_template and nothing is logged.
C7_Witness ==
  /\ DataprocessorCalled
  /\ HasKey(arg, S("chat_template")) /\ HasKey(arg, S("chat_template_base64"))
  /\ GetItem(arg, S("chat_template_base64")) = Str(<<81>>)
  /\ ret.kind = "ok" /\ ret.val.chat_template = Hi /\ log = <<>>

(***************************************************************************)
(* Properties of load_and_validate_data_config, checked under SpecLoad.    *)
(***************************************************************************)
LoadCalled == call = "load_and_validate_data_config" /\ IsDict(arg)

\* C1: every DataConfig returned has a non-empty datasets sequence; a document
\* whose datasets is an empty list fails.
C1_DatasetsNonEmpty ==
  LoadCalled =>
    /\ ret.kind = "ok" => Len(ret.val.datasets.v) > 0
    /\ HasKey(arg, S("datasets")) /\ GetItem(arg, S("datasets")) = List(<<>>) =>
         ret.kind = "raise"

\* C10: a document without a dataprocessor key never yields a DataConfig.  The
\* first dataset entry, in document order, that is invalid raises its error;
\* when every entry is valid the call fails on the unbound local dataprocessor.
C10_NoDataprocessorFails ==
  LoadCalled /\ ~HasKey(arg, S("dataprocessor")) =>
    /\ ret.kind = "raise"
    /\ HasKey(arg, S("datasets")) /\ GetItem(arg, S("datasets")).t = "list" =>
         LET entries == GetItem(arg, S("datasets")).v
             invalid == {i \in 1..Len(entries) :
                           _validate_dataset_config(entries[i]).kind = "raise"}
         IN IF invalid = {}
            THEN ret.exc = "UnboundLocalError"
            ELSE LET first == CHOOSE i \in invalid : \A j \in invalid : i <= j
                 IN ret = Outcome(_validate_dataset_config(entries[first]))

\* A document of two valid dataset entries and no dataprocessor has failed on
\* the unbound local.
C10_Witness ==
  /\ LoadCalled /\ ~HasKey(arg, S("dataprocessor"))
  /\ HasKey(arg, S("datasets")) /\ GetItem(arg, S("datasets")).t = "list"
  /\ Len(GetItem(arg, S("datasets")).v) = 2
  /\ ret.kind = "raise" /\ ret.exc = "UnboundLocalError"

(***************************************************************************)
(* Properties of the data handlers, checked under SpecHandlers.            *)
(***************************************************************************)
\* The records the engine has handed to the handler so far.
Processed == SubSeq(arg.dataset, 1, Len(arg.dataset) - Len(pending))

\* C8: filtering with skip_samples_with_large_columns keeps exactly the
\* records whose column is no longer than max_allowed_length (a column of
\* exactly that length is kept), in their order; the test's 100 records of
\* lengths 1..100 leave 60 with max_allowed_length 60.
C8_FilterKeepsShortRecords ==
  /\ call = "filter"
  /\ GetOr(arg.fn_kwargs, S("column_name"), None) = S("input")
  /\ GetOr(arg.fn_kwargs, S("max_allowed_length"), None).t = "int"
  => LET max_allowed_length == GetItem(arg.fn_kwargs, S("max_allowed_length")).v
         short(record) == Len(GetItem(record, S("input")).v) <= max_allowed_length
     IN /\ ret.kind # "raise"
        /\ out = SelectSeq(Processed, short)
        /\ ret.kind = "ok" =>
             /\ ret.val = SelectSeq(arg.dataset, short)
             /\ arg.dataset = TestDataset => Len(ret.val) = TestMaxAllowedLength

\* A filter has finished that kept a record of exactly max_allowed_length and
\* dropped a longer one.
C8_Witness ==
  /\ call = "filter" /\ ret.kind = "ok"
  /\ GetOr(arg.fn_kwargs, S("max_allowed_length"), None) = PyInt(2)
  /\ \E i \in 1..Len(ret.val) : Len(GetItem(ret.val[i], S("input")).v) = 2
  /\ \E i \in 1..Len(arg.dataset) : Len(GetItem(arg.dataset[i], S("input")).v) = 3
  /\ Len(ret.val) < Len(arg.dataset)

\* C9: every record duplicate_columns returns has both the existing and the
\* new column, with equal values, the existing one unchanged; it returns no
\* record, and fails with a ValueError, when a name is missing, None or not a
\* string or the existing column is not in the record.
C9_DuplicateColumns ==
  call = "map" =>
    LET old == GetOr(arg.fn_kwargs, S("existing_column_name"), None)
        new == GetOr(arg.fn_kwargs, S("new_column_name"), None)
        wrong(record) == old.t # "str" \/ new.t # "str" \/ ~HasKey(record, old)
    IN /\ \A i \in 1..Len(out) :
            /\ ~wrong(arg.dataset[i])
            /\ HasKey(out[i], old) /\ HasKey(out[i], new)
            /\ GetItem(out[i], new) = GetItem(out[i], old)
            /\ GetItem(out[i], old) = GetItem(arg.dataset[i], old)
       /\ Len(out) = Len(Processed)
       /\ ret.kind = "raise" => ret.exc = "ValueError"
       /\ ret.kind = "ok" =>
            /\ ret.val = out /\ Len(out) = Len(arg.dataset)
            /\ \A i \in 1..Len(arg.dataset) : ~wrong(arg.dataset[i])

\* A map of input_ids to labels has finished on records that had input_ids
\* only.
C9_Witness ==
  /\ call = "map" /\ ret.kind = "ok" /\ Len(ret.val) = 2
  /\ GetOr(arg.fn_kwargs, S("existing_column_name"), None) = S("input_ids")
  /\ GetOr(arg.fn_kwargs, S("new_column_name"), None) = S("labels")
  /\ GetItem(ret.val[1], S("labels")) = GetItem(arg.dataset[1], S("input_ids"))

=============================================================================
